---- MODULE Spec2Model ----
(***************************************************************************)
(* A model of RealmCoordinator (src/src/impl/realm_coordinator.cpp).       *)
(*                                                                         *)
(* The coordinator is modelled as six state machines over one set of      *)
(* variables, each with its own specification:                             *)
(*   SpecRealm     get_realm / unregister_realm on one coordinator: the    *)
(*                 adopted configuration, the commit helper and the weak   *)
(*                 handle list;                                            *)
(*   SpecRegistry  the process-wide registry, coordinator lifetimes,       *)
(*                 clear_cache and clear_all_caches, thread by thread;     *)
(*   SpecNotifier  version pinning, register_notifier,                     *)
(*                 run_async_notifiers and delivery on one coordinator;    *)
(*   SpecWorkers   run_async_notifiers called on several threads at once;  *)
(*   SpecAccess    the mutexes held where the coordinator's fields are     *)
(*                 read and written;                                       *)
(*   SpecMerge     the change_info computation of one                      *)
(*                 run_async_notifiers cycle.                              *)
(* A specification leaves the variables of the other machines unchanged.   *)
(***************************************************************************)
EXTENDS Integers, Sequences, FiniteSets, TLC

\* ------------------------------------------------------------------ bounds
\* Threads that open handles.
MaxThreads == 2
\* Handles get_realm may create in one behaviour of SpecRealm.
MaxRealms == 2
\* Paths, coordinators ever made, Realms ever opened and client threads of SpecRegistry.
MaxPaths == 2
MaxCoords == 2
MaxHandles == 2
MaxRegThreads == 2
\* Realms (each on its own thread) that register notifiers and take deliveries,
\* notifiers ever registered and commits to the file in SpecNotifier.
MaxClients == 2
MaxNotifiers == 2
MaxVersion == 3
\* Threads on which commit helpers call on_change in SpecWorkers.
MaxWorkers == 2
\* Threads that call member functions of one coordinator in SpecAccess.
MaxCallers == 3
\* Versions of the file, tables and staged notifiers in a cycle of SpecMerge.
MaxMergeVersion == 3
MaxTables == 2
MaxStaged == 2

Threads == 1..MaxThreads
RealmIds == 1..MaxRealms
NoRealm == 0

\* ObjectStore::NotVersioned, the schema version of an unversioned file.
NotVersioned == 0

\* ------------------------------------------------------------- SpecRealm
\* Realm::Config, the fields get_realm reads.
AllConfigs == [read_only : BOOLEAN, in_memory : BOOLEAN, encryption_key : {0, 1},
               schema_version : {NotVersioned, 1}, cache : BOOLEAN,
               automatic_change_notifications : BOOLEAN]

\* The configs the openers pass: every combination of read_only, cache and
\* automatic_change_notifications, with at most one of in_memory, encryption_key
\* and schema_version away from its default.
Configs == {c \in AllConfigs :
               Cardinality({f \in {"in_memory", "encryption_key", "schema_version"} :
                               c[f] # (IF f = "in_memory" THEN FALSE ELSE 0)}) <= 1}

\* A default-constructed Realm::Config, the m_config of a new coordinator.
DefaultConfig == [read_only |-> FALSE, in_memory |-> FALSE, encryption_key |-> 0,
                  schema_version |-> NotVersioned, cache |-> TRUE,
                  automatic_change_notifications |-> TRUE]

VARIABLES
    m_config,                 \* RealmCoordinator::m_config
    m_notifier,               \* m_notifier # nullptr (the ExternalCommitHelper)
    m_weak_realm_notifiers,   \* sequence of [realm, thread, cache]
    realms,                   \* the Realm objects: state and the config they were opened with
    ret                       \* the last call on the coordinator and what it returned

realmVars == <<m_config, m_notifier, m_weak_realm_notifiers, realms, ret>>

\* The state of SpecRegistry.
VARIABLES
    s_coordinator_mutex,      \* the thread holding s_coordinator_mutex, or NoThread
    s_coordinators_per_path,  \* path -> the coordinator its weak_ptr refers to, or NoCoord
    coordinators,             \* coordinator -> [state, path, m_notifier, m_weak_realm_notifiers]
    handles,                  \* Realm -> [state, coordinator (Realm::m_coordinator)]
    th,                       \* thread -> its program counter and locals
    worker,                   \* the commit helper's thread, in on_change or idle
    opened_since_clear        \* no clear_cache yet, or a Realm was opened since the last one

registryVars == <<s_coordinator_mutex, s_coordinators_per_path, coordinators, handles, th,
                  worker, opened_since_clear>>

\* The state of SpecNotifier.
VARIABLES
    latest,             \* the latest version committed to the file
    bc,                 \* notifier (BackgroundCollection) -> [state, alive, version, realm, error]
    m_new_notifiers,    \* sequence of notifiers, staged
    m_notifiers,        \* sequence of notifiers, active
    m_advancer_sg,      \* [open, reading, version]
    m_notifier_sg,      \* [open, reading, version]
    m_async_error,      \* m_async_error # nullptr
    m_notifier_mutex,   \* the client holding m_notifier_mutex, or NoThread
    run,                \* the worker inside run_async_notifiers: its place and locals
    cl,                 \* client -> its place, its locals and its Realm's version
    assert_failed,      \* the REALM_ASSERT of line 341 failed: the process aborted
    advanced_to         \* the version line 381 last advanced m_notifier_sg to, 0 before the first

notifierVars == <<latest, bc, m_new_notifiers, m_notifiers, m_advancer_sg, m_notifier_sg,
                  m_async_error, m_notifier_mutex, run, cl, assert_failed, advanced_to>>

\* The state of SpecMerge: one cycle of run_async_notifiers from line 326 on.
VARIABLES
    commits,            \* version -> the tables the commit that made it changed
    staged_versions,    \* version() of each of new_notifiers, sorted (line 338)
    notifier_version,   \* the version m_notifier_sg is at when the cycle starts
    change_info,        \* sequence of [tables], slot i of the code at index i + 1
    info,               \* the index in change_info of the slot `info` points to
    cycle_version,      \* the local `version`
    slot_of,            \* for each of new_notifiers, the slot it gave to add_required_change_info
    merge_pc,           \* the place in the cycle
    merge_i             \* the loop index i of line 389

mergeVars == <<commits, staged_versions, notifier_version, change_info, info, cycle_version,
               slot_of, merge_pc, merge_i>>

\* The state of SpecWorkers, besides that of SpecNotifier.
VARIABLES
    workers,            \* commit helper thread -> its place in run_async_notifiers and its locals
    data_race           \* two threads were between lines 375 and 426 at the same time

workerVars == <<workers, data_race>>

\* The state of SpecAccess.
VARIABLES
    in_call             \* thread -> the member function it is inside and the mutexes it holds

accessVars == <<in_call>>

\* What each machine leaves alone: the state of the others.
realmFrame == <<registryVars, notifierVars, mergeVars, workerVars, accessVars>>
registryFrame == <<realmVars, notifierVars, mergeVars, workerVars, accessVars>>
notifierFrame == <<realmVars, registryVars, mergeVars, workerVars, accessVars>>
mergeFrame == <<realmVars, registryVars, notifierVars, workerVars, accessVars>>
workersFrame == <<realmVars, registryVars, mergeVars, accessVars>>
accessFrame == <<realmVars, registryVars, notifierVars, mergeVars, workerVars>>

NoCall == [op |-> "none", result |-> "none", realm |-> NoRealm]

\* A Realm that does not exist yet, or no longer.
NoRealmObject(state) == [state |-> state, thread |-> 0, read_only |-> FALSE, cache |-> FALSE]

InitRealm ==
    /\ m_config = DefaultConfig
    /\ m_notifier = FALSE
    /\ m_weak_realm_notifiers = <<>>
    /\ realms = [h \in RealmIds |-> NoRealmObject("unborn")]
    /\ ret = NoCall

\* WeakRealmNotifier::expired(): the Realm's reference count has reached zero.
expired(entry) == realms[entry.realm].state = "expired"

\* WeakRealmNotifier::realm(): the weak pointer locked; NoRealm when it is null.
realm_of(entry) == IF realms[entry.realm].state = "open" THEN entry.realm ELSE NoRealm

\* WeakRealmNotifier::is_cached_for_current_thread().
is_cached_for_current_thread(entry, t) == entry.cache /\ entry.thread = t

\* Mutant: the emptiness test of the read-only disjunct is lost.
ShouldAdopt_NoEmptyTest ==
    (~m_config.read_only /\ ~m_notifier) \/ m_config.read_only

\* The condition of get_realm's first branch: the coordinator adopts the config.
ShouldAdopt ==
    \/ (~m_config.read_only /\ ~m_notifier)
    \/ (m_config.read_only /\ m_weak_realm_notifiers = <<>>)

\* The else branch: the first mismatch found, in the order of the checks.
Mismatch(config) ==
    IF m_config.read_only # config.read_only THEN "MismatchedConfig: read permissions"
    ELSE IF m_config.in_memory # config.in_memory THEN "MismatchedConfig: inMemory settings"
    ELSE IF m_config.encryption_key # config.encryption_key
         THEN "MismatchedConfig: encryption key"
    ELSE IF m_config.schema_version # config.schema_version
            /\ config.schema_version # NotVersioned
         THEN "MismatchedConfig: schema version"
    ELSE "none"

MismatchErrors == {"MismatchedConfig: read permissions", "MismatchedConfig: inMemory settings",
                   "MismatchedConfig: encryption key", "MismatchedConfig: schema version"}

\* Mutant: the lookup returns the first cache entry, whatever thread made it.
CacheLookup_AnyThread(config, t) ==
    LET hits == {i \in DOMAIN m_weak_realm_notifiers :
                    /\ m_weak_realm_notifiers[i].cache
                    /\ realm_of(m_weak_realm_notifiers[i]) # NoRealm}
    IN IF config.cache /\ hits # {}
       THEN realm_of(m_weak_realm_notifiers[CHOOSE i \in hits : \A j \in hits : i <= j])
       ELSE NoRealm

\* The cache lookup of get_realm: the first entry that is cached for the calling
\* thread and whose Realm is still alive; NoRealm when there is none.
CacheLookup(config, t) ==
    LET hits == {i \in DOMAIN m_weak_realm_notifiers :
                    /\ is_cached_for_current_thread(m_weak_realm_notifiers[i], t)
                    /\ realm_of(m_weak_realm_notifiers[i]) # NoRealm}
    IN IF config.cache /\ hits # {}
       THEN realm_of(m_weak_realm_notifiers[CHOOSE i \in hits : \A j \in hits : i <= j])
       ELSE NoRealm

Unborn == {h \in RealmIds : realms[h].state = "unborn"}

\* What get_realm(config) does when called on thread t: the coordinator's fields
\* after the call, and what the call returns or throws. helper_ok: the
\* ExternalCommitHelper can be constructed; open_ok: the Realm can be constructed
\* and initialised.
GetRealm(config, t, helper_ok, open_ok) ==
    LET adopt == ShouldAdopt
        make_helper == adopt /\ ~config.read_only /\ ~m_notifier
                       /\ config.automatic_change_notifications
        config1 == IF adopt THEN config ELSE m_config
        notifier1 == m_notifier \/ (make_helper /\ helper_ok)
        mismatch == IF adopt THEN "none" ELSE Mismatch(config)
        cached == CacheLookup(config, t)
        h == IF Unborn = {} THEN NoRealm ELSE CHOOSE x \in Unborn : \A y \in Unborn : x <= y
        same == [m_config |-> config1, m_notifier |-> notifier1,
                 m_weak_realm_notifiers |-> m_weak_realm_notifiers, realms |-> realms,
                 result |-> "none", realm |-> NoRealm]
    IN
    IF make_helper /\ ~helper_ok
    THEN \* RealmFileException(AccessError), thrown after m_config was assigned
         [same EXCEPT !.result = "AccessError"]
    ELSE IF mismatch # "none"
    THEN [same EXCEPT !.result = mismatch]
    ELSE IF cached # NoRealm
    THEN [same EXCEPT !.result = "cached", !.realm = cached]
    ELSE IF ~open_ok
    THEN \* the Realm constructor or init throws: nothing is registered
         [same EXCEPT !.result = "OpenError"]
    ELSE [same EXCEPT
             !.realms = [realms EXCEPT ![h] =
                            [state |-> "open", thread |-> t,
                             read_only |-> config.read_only, cache |-> config.cache]],
             !.m_weak_realm_notifiers =
                 Append(m_weak_realm_notifiers,
                        [realm |-> h, thread |-> t, cache |-> config1.cache]),
             !.result = "created", !.realm = h]

\* get_realm(config) called on thread t. A call that would create a Realm waits
\* for a free Realm id.
get_realm(config, t, helper_ok, open_ok) ==
    LET r == GetRealm(config, t, helper_ok, open_ok)
    IN /\ r.result = "created" => Unborn # {}
       /\ m_config' = r.m_config
       /\ m_notifier' = r.m_notifier
       /\ m_weak_realm_notifiers' = r.m_weak_realm_notifiers
       /\ realms' = r.realms
       /\ ret' = [op |-> "get_realm", result |-> r.result, realm |-> r.realm]

\* The last reference to Realm h is dropped: its weak pointer expires, and its
\* destructor has not yet reached unregister_realm.
release_realm(h) ==
    /\ realms[h].state = "open"
    /\ realms' = [realms EXCEPT ![h].state = "expired"]
    /\ ret' = [op |-> "release_realm", result |-> "none", realm |-> h]
    /\ UNCHANGED <<m_config, m_notifier, m_weak_realm_notifiers>>

\* The entries and the Realms after unregister_realm(h): the entries that are
\* expired or are for h are removed.
Unregister(weak, rs, h) ==
    [m_weak_realm_notifiers |->
         SelectSeq(weak, LAMBDA e : ~(rs[e.realm].state = "expired" \/ e.realm = h)),
     realms |-> [x \in RealmIds |->
                    IF x = h \/ rs[x].state = "expired" THEN NoRealmObject("gone")
                    ELSE rs[x]]]

\* unregister_realm(realm), called by Realm::close() on an open Realm and by the
\* destructor of an expired one.
unregister_realm(h) ==
    /\ realms[h].state \in {"open", "expired"}
    /\ m_weak_realm_notifiers' = Unregister(m_weak_realm_notifiers, realms, h).m_weak_realm_notifiers
    /\ realms' = Unregister(m_weak_realm_notifiers, realms, h).realms
    /\ ret' = [op |-> "unregister_realm", result |-> "none", realm |-> h]
    /\ UNCHANGED <<m_config, m_notifier>>

\* clear_cache on this coordinator, taken as one step: the commit helper is dropped
\* and every Realm that is still alive is closed; Realm::close() calls
\* unregister_realm. (SpecRegistry takes clear_cache step by step.)
clear_cache_realm ==
    LET alive == {realm_of(m_weak_realm_notifiers[i]) :
                     i \in DOMAIN m_weak_realm_notifiers} \ {NoRealm}
    IN /\ m_notifier' = FALSE
       /\ m_weak_realm_notifiers' =
              IF alive = {} THEN m_weak_realm_notifiers ELSE <<>>
       /\ realms' = [x \in RealmIds |->
                       IF alive # {} /\ realms[x].state \in {"open", "expired"}
                       THEN NoRealmObject("gone") ELSE realms[x]]
       /\ ret' = [op |-> "clear_cache", result |-> "none", realm |-> NoRealm]
       /\ UNCHANGED m_config

\* The outcomes the environment can give a get_realm call: constructing the commit
\* helper can fail only when it is constructed, opening the Realm only when it is opened.
HelperOutcomes(config) ==
    IF ShouldAdopt /\ ~config.read_only /\ ~m_notifier /\ config.automatic_change_notifications
    THEN BOOLEAN ELSE {TRUE}

OpenOutcomes(config, t) ==
    IF (ShouldAdopt \/ Mismatch(config) = "none") /\ CacheLookup(config, t) = NoRealm
    THEN BOOLEAN ELSE {TRUE}

NextRealm ==
    \/ /\ \E config \in Configs, t \in Threads :
            \E helper_ok \in HelperOutcomes(config), open_ok \in OpenOutcomes(config, t) :
              get_realm(config, t, helper_ok, open_ok)
       /\ UNCHANGED realmFrame
    \/ /\ \E h \in RealmIds : release_realm(h)
       /\ UNCHANGED realmFrame
    \/ /\ \E h \in RealmIds : unregister_realm(h)
       /\ UNCHANGED realmFrame
    \/ /\ clear_cache_realm
       /\ UNCHANGED realmFrame

\* ---------------------------------------------------------- SpecRegistry
\* The registry s_coordinators_per_path, the coordinators' lifetimes and the
\* Realms that keep them alive, with every operation taken step by step on the
\* thread that runs it. A coordinator is alive while a std::shared_ptr to it
\* exists: a thread's (the value get_coordinator returned, the locals of clear_cache
\* and clear_all_caches) or an open Realm's. The thread that drops the last one runs
\* ~RealmCoordinator.
Paths == 1..MaxPaths
CoordIds == 1..MaxCoords
HandleIds == 1..MaxHandles
RegThreads == 1..MaxRegThreads
NoCoord == 0
NoThread == 0

NoCoordinator == [state |-> "unborn", path |-> 0, m_notifier |-> FALSE,
                  m_weak_realm_notifiers |-> {}]

\* What a running clear_cache call has done so far: the Realms that were open in
\* the list of the coordinator it was called on when it took s_coordinator_mutex
\* and that it has not called close() on, whether it has called close() at all,
\* and whether it follows an earlier clear_cache with no Realm opened since.
NoClear == [missed |-> {}, closed_any |-> FALSE, repeat |-> FALSE]

IdleThread == [pc |-> "idle", after |-> "idle", held |-> NoCoord, coordinator |-> NoCoord,
               cac |-> NoCoord, iter |-> {}, realms_to_close |-> {}, to_clear |-> {},
               clear |-> NoClear]

InitRegistry ==
    /\ s_coordinator_mutex = NoThread
    /\ s_coordinators_per_path = [p \in Paths |-> NoCoord]
    /\ coordinators = [c \in CoordIds |-> NoCoordinator]
    /\ handles = [h \in HandleIds |-> [state |-> "unborn", coordinator |-> NoCoord]]
    /\ th = [t \in RegThreads |-> IdleThread]
    /\ worker = [pc |-> "idle", coordinator |-> NoCoord]
    /\ opened_since_clear = TRUE

\* The number of std::shared_ptr<RealmCoordinator> to c, given the threads' locals
\* T and the Realms H.
RefsIn(T, H, c) ==
    Cardinality({t \in RegThreads : T[t].held = c})
    + Cardinality({t \in RegThreads : T[t].coordinator = c})
    + Cardinality({t \in RegThreads : T[t].cac = c})
    + Cardinality({h \in HandleIds : H[h].coordinator = c})

\* weak_ptr::lock() succeeds on c.
Alive(c) == c # NoCoord /\ coordinators[c].state = "alive"

\* Thread t has dropped a reference to c, which left the threads' locals T and the
\* Realms H. It goes on at cont, unless the reference was the last one: then the
\* coordinator expires and t runs ~RealmCoordinator first.
Dropped(t, c, T, H, cont) ==
    IF RefsIn(T, H, c) = 0
    THEN [T EXCEPT ![t].pc = "dtor", ![t].after = cont]
    ELSE [T EXCEPT ![t].pc = cont]

ExpiredBy(T, H, c) ==
    IF RefsIn(T, H, c) = 0 THEN [coordinators EXCEPT ![c].state = "expired"]
    ELSE coordinators

\* realm_mutex of c is held by the worker while on_change notifies c's Realms; every
\* other critical section on it is one step.
RealmMutexFree(c) == ~(worker.pc = "notify" /\ worker.coordinator = c)

UnbornCoords == {c \in CoordIds : coordinators[c].state = "unborn"}
UnbornHandles == {h \in HandleIds : handles[h].state = "unborn"}

\* get_coordinator(path) on thread t, which keeps the pointer returned.
get_coordinator(t, p) ==
    LET c == s_coordinators_per_path[p]
        new == CHOOSE x \in UnbornCoords : \A y \in UnbornCoords : x <= y
    IN
    /\ th[t].pc = "idle" /\ th[t].held = NoCoord
    /\ s_coordinator_mutex = NoThread
    /\ IF Alive(c)
       THEN /\ th' = [th EXCEPT ![t].held = c]
            /\ UNCHANGED <<s_coordinators_per_path, coordinators>>
       ELSE /\ UnbornCoords # {}
            /\ coordinators' = [coordinators EXCEPT ![new] =
                                    [state |-> "alive", path |-> p, m_notifier |-> FALSE,
                                     m_weak_realm_notifiers |-> {}]]
            /\ s_coordinators_per_path' = [s_coordinators_per_path EXCEPT ![p] = new]
            /\ th' = [th EXCEPT ![t].held = new]
    /\ UNCHANGED <<s_coordinator_mutex, handles, worker, opened_since_clear>>

\* get_existing_coordinator(path) on thread t, which keeps the pointer when it is
\* not null.
get_existing_coordinator(t, p) ==
    LET c == s_coordinators_per_path[p]
    IN
    /\ th[t].pc = "idle" /\ th[t].held = NoCoord
    /\ s_coordinator_mutex = NoThread
    /\ Alive(c)
    /\ th' = [th EXCEPT ![t].held = c]
    /\ UNCHANGED <<s_coordinator_mutex, s_coordinators_per_path, coordinators, handles,
                   worker, opened_since_clear>>

\* get_realm(config) on the coordinator thread t holds, with a writable config that
\* asks for automatic change notifications and no cache: a new Realm is registered
\* and holds the coordinator (realm->init(shared_from_this())).
get_realm_new(t) ==
    LET c == th[t].held
        h == CHOOSE x \in UnbornHandles : \A y \in UnbornHandles : x <= y
    IN
    /\ th[t].pc = "idle" /\ c # NoCoord
    /\ RealmMutexFree(c)
    /\ UnbornHandles # {}
    /\ handles' = [handles EXCEPT ![h] = [state |-> "open", coordinator |-> c]]
    /\ coordinators' = [coordinators EXCEPT
                            ![c].m_notifier = TRUE,
                            ![c].m_weak_realm_notifiers = @ \cup {h}]
    /\ opened_since_clear' = TRUE
    /\ th' = [u \in RegThreads |-> [th[u] EXCEPT !.clear.repeat = FALSE]]
    /\ UNCHANGED <<s_coordinator_mutex, s_coordinators_per_path, worker>>

\* Thread t drops the pointer get_coordinator gave it.
drop_coordinator(t) ==
    LET c == th[t].held
        T == [th EXCEPT ![t].held = NoCoord]
    IN
    /\ th[t].pc = "idle" /\ c # NoCoord
    /\ th' = Dropped(t, c, T, handles, "idle")
    /\ coordinators' = ExpiredBy(T, handles, c)
    /\ UNCHANGED <<s_coordinator_mutex, s_coordinators_per_path, handles, worker,
                   opened_since_clear>>

\* Realm h leaves its coordinator on thread t: unregister_realm(h) under realm_mutex,
\* then the Realm lets go of m_coordinator. to is the state of the Realm afterwards.
Leave(t, h, to, T, cont) ==
    LET c == handles[h].coordinator
        H == [handles EXCEPT ![h] = [state |-> to, coordinator |-> NoCoord]]
    IN
    /\ RealmMutexFree(c)
    /\ handles' = H
    /\ th' = Dropped(t, c, T, H, cont)
    /\ coordinators' =
           [ExpiredBy(T, H, c) EXCEPT ![c].m_weak_realm_notifiers = @ \ {h}]

\* The last reference to the open Realm h is dropped on thread t: ~Realm()
\* unregisters it. (Dropping a closed Realm changes nothing here.)
release_handle(t, h) ==
    /\ th[t].pc = "idle"
    /\ handles[h].state = "open"
    /\ Leave(t, h, "closed", th, "idle")
    /\ UNCHANGED <<s_coordinator_mutex, s_coordinators_per_path, worker, opened_since_clear>>

\* ~RealmCoordinator on thread t: under s_coordinator_mutex, the expired entries are
\* erased. A thread that holds s_coordinator_mutex itself never gets it.
destructor(t) ==
    /\ th[t].pc = "dtor"
    /\ s_coordinator_mutex = NoThread
    /\ s_coordinators_per_path' =
           [p \in Paths |-> IF Alive(s_coordinators_per_path[p])
                            THEN s_coordinators_per_path[p] ELSE NoCoord]
    /\ th' = [th EXCEPT ![t].pc = th[t].after, ![t].after = "idle"]
    /\ UNCHANGED <<s_coordinator_mutex, coordinators, handles, worker, opened_since_clear>>

\* clear_cache() called by thread t on the coordinator it holds: line 164 takes
\* s_coordinator_mutex; the loop is about to walk every entry of the registry.
BeginClear(t, target) ==
    [th EXCEPT ![t].pc = "cc_loop",
               ![t].iter = {p \in Paths : s_coordinators_per_path[p] # NoCoord},
               ![t].realms_to_close = {},
               ![t].clear = [missed |-> {h \in coordinators[target].m_weak_realm_notifiers :
                                            handles[h].state = "open"},
                             closed_any |-> FALSE,
                             repeat |-> ~opened_since_clear]]

clear_cache_begin(t) ==
    /\ th[t].pc = "idle" /\ th[t].held # NoCoord
    /\ s_coordinator_mutex = NoThread
    /\ s_coordinator_mutex' = t
    /\ th' = BeginClear(t, th[t].held)
    /\ UNCHANGED <<s_coordinators_per_path, coordinators, handles, worker, opened_since_clear>>

\* One entry of the loop of lines 166-180, up to the end of its body: an expired
\* entry is skipped; otherwise the local shared_ptr keeps the coordinator, its
\* m_notifier is reset and the Realms of its list that can still be locked are
\* gathered, as weak pointers.
clear_cache_entry(t, p) ==
    LET c == s_coordinators_per_path[p]
    IN
    /\ th[t].pc = "cc_loop"
    /\ p \in th[t].iter
    /\ IF Alive(c)
       THEN /\ th' = [th EXCEPT ![t].pc = "cc_iter",
                                ![t].iter = @ \ {p},
                                ![t].coordinator = c,
                                ![t].realms_to_close = @ \cup
                                    {h \in coordinators[c].m_weak_realm_notifiers :
                                        handles[h].state = "open"}]
            /\ coordinators' = [coordinators EXCEPT ![c].m_notifier = FALSE]
       ELSE /\ th' = [th EXCEPT ![t].iter = @ \ {p}]
            /\ UNCHANGED coordinators
    /\ UNCHANGED <<s_coordinator_mutex, s_coordinators_per_path, handles, worker,
                   opened_since_clear>>

\* The end of the loop body: the local shared_ptr goes out of scope, with
\* s_coordinator_mutex held.
clear_cache_entry_end(t) ==
    LET c == th[t].coordinator
        T == [th EXCEPT ![t].coordinator = NoCoord]
    IN
    /\ th[t].pc = "cc_iter"
    /\ th' = Dropped(t, c, T, handles, "cc_loop")
    /\ coordinators' = ExpiredBy(T, handles, c)
    /\ UNCHANGED <<s_coordinator_mutex, s_coordinators_per_path, handles, worker,
                   opened_since_clear>>

\* Lines 182-183: the loop is over, the registry is cleared and the lock released.
clear_cache_clear(t) ==
    /\ th[t].pc = "cc_loop"
    /\ th[t].iter = {}
    /\ s_coordinators_per_path' = [p \in Paths |-> NoCoord]
    /\ s_coordinator_mutex' = NoThread
    /\ opened_since_clear' = FALSE
    /\ th' = [th EXCEPT ![t].pc = "cc_close"]
    /\ UNCHANGED <<coordinators, handles, worker>>

\* Where clear_cache returns to: the caller, or the loop of clear_all_caches.
Return(t) == IF th[t].cac = NoCoord THEN "idle" ELSE "cac_drop"

\* Lines 187-190, one gathered Realm: close() it if it can still be locked (and
\* has not been closed since it was gathered).
clear_cache_close(t, h) ==
    LET T == [th EXCEPT ![t].realms_to_close = @ \ {h},
                        ![t].clear.missed = @ \ {h},
                        ![t].clear.closed_any = TRUE]
    IN
    /\ th[t].pc = "cc_close"
    /\ h \in th[t].realms_to_close
    /\ IF handles[h].state = "open"
       THEN Leave(t, h, "closed", T, "cc_close")
       ELSE /\ th' = [th EXCEPT ![t].realms_to_close = @ \ {h}]
            /\ UNCHANGED <<handles, coordinators>>
    /\ UNCHANGED <<s_coordinator_mutex, s_coordinators_per_path, worker, opened_since_clear>>

clear_cache_return(t) ==
    /\ th[t].pc = "cc_close"
    /\ th[t].realms_to_close = {}
    /\ th' = [th EXCEPT ![t].pc = Return(t), ![t].clear = NoClear]
    /\ UNCHANGED <<s_coordinator_mutex, s_coordinators_per_path, coordinators, handles,
                   worker, opened_since_clear>>

\* clear_all_caches(), lines 195-199: the registry's weak pointers are copied under
\* s_coordinator_mutex.
clear_all_caches_begin(t) ==
    /\ th[t].pc = "idle"
    /\ s_coordinator_mutex = NoThread
    /\ \E p \in Paths : s_coordinators_per_path[p] # NoCoord
    /\ th' = [th EXCEPT ![t].pc = "cac_loop",
                        ![t].to_clear = {s_coordinators_per_path[p] : p \in Paths}
                                            \ {NoCoord}]
    /\ UNCHANGED <<s_coordinator_mutex, s_coordinators_per_path, coordinators, handles,
                   worker, opened_since_clear>>

\* Lines 201-203: the next copied pointer is locked; clear_cache() is called on the
\* coordinator if it is still alive.
clear_all_caches_lock(t, c) ==
    /\ th[t].pc = "cac_loop"
    /\ c \in th[t].to_clear
    /\ th' = IF Alive(c)
             THEN [th EXCEPT ![t].pc = "cac_call", ![t].to_clear = @ \ {c}, ![t].cac = c]
             ELSE [th EXCEPT ![t].to_clear = @ \ {c}]
    /\ UNCHANGED <<s_coordinator_mutex, s_coordinators_per_path, coordinators, handles,
                   worker, opened_since_clear>>

\* Line 204: coordinator->clear_cache() takes s_coordinator_mutex.
clear_all_caches_call(t) ==
    /\ th[t].pc = "cac_call"
    /\ s_coordinator_mutex = NoThread
    /\ s_coordinator_mutex' = t
    /\ th' = BeginClear(t, th[t].cac)
    /\ UNCHANGED <<s_coordinators_per_path, coordinators, handles, worker, opened_since_clear>>

\* Line 205: the local shared_ptr of the loop body goes out of scope.
clear_all_caches_drop(t) ==
    LET c == th[t].cac
        T == [th EXCEPT ![t].cac = NoCoord]
    IN
    /\ th[t].pc = "cac_drop"
    /\ th' = Dropped(t, c, T, handles, "cac_loop")
    /\ coordinators' = ExpiredBy(T, handles, c)
    /\ UNCHANGED <<s_coordinator_mutex, s_coordinators_per_path, handles, worker,
                   opened_since_clear>>

clear_all_caches_return(t) ==
    /\ th[t].pc = "cac_loop"
    /\ th[t].to_clear = {}
    /\ th' = [th EXCEPT ![t].pc = "idle"]
    /\ UNCHANGED <<s_coordinator_mutex, s_coordinators_per_path, coordinators, handles,
                   worker, opened_since_clear>>

\* on_change() on the worker of coordinator c's commit helper, after
\* run_async_notifiers (under notifier_mutex, which no other thread of this machine
\* takes): line 300 takes realm_mutex to notify the coordinator's Realms.
on_change_notify(c) ==
    /\ worker.pc = "idle"
    /\ Alive(c) /\ coordinators[c].m_notifier
    /\ worker' = [pc |-> "notify", coordinator |-> c]
    /\ UNCHANGED <<s_coordinator_mutex, s_coordinators_per_path, coordinators, handles, th,
                   opened_since_clear>>

on_change_return ==
    /\ worker.pc = "notify"
    /\ worker' = [pc |-> "idle", coordinator |-> NoCoord]
    /\ UNCHANGED <<s_coordinator_mutex, s_coordinators_per_path, coordinators, handles, th,
                   opened_since_clear>>

NextRegistry ==
    \/ /\ \E t \in RegThreads, p \in Paths : get_coordinator(t, p)
       /\ UNCHANGED registryFrame
    \/ /\ \E t \in RegThreads, p \in Paths : get_existing_coordinator(t, p)
       /\ UNCHANGED registryFrame
    \/ /\ \E t \in RegThreads : get_realm_new(t)
       /\ UNCHANGED registryFrame
    \/ /\ \E t \in RegThreads : drop_coordinator(t)
       /\ UNCHANGED registryFrame
    \/ /\ \E t \in RegThreads, h \in HandleIds : release_handle(t, h)
       /\ UNCHANGED registryFrame
    \/ /\ \E t \in RegThreads : destructor(t)
       /\ UNCHANGED registryFrame
    \/ /\ \E t \in RegThreads : clear_cache_begin(t)
       /\ UNCHANGED registryFrame
    \/ /\ \E t \in RegThreads, p \in Paths : clear_cache_entry(t, p)
       /\ UNCHANGED registryFrame
    \/ /\ \E t \in RegThreads : clear_cache_entry_end(t)
       /\ UNCHANGED registryFrame
    \/ /\ \E t \in RegThreads : clear_cache_clear(t)
       /\ UNCHANGED registryFrame
    \/ /\ \E t \in RegThreads, h \in HandleIds : clear_cache_close(t, h)
       /\ UNCHANGED registryFrame
    \/ /\ \E t \in RegThreads : clear_cache_return(t)
       /\ UNCHANGED registryFrame
    \/ /\ \E t \in RegThreads : clear_all_caches_begin(t)
       /\ UNCHANGED registryFrame
    \/ /\ \E t \in RegThreads, c \in CoordIds : clear_all_caches_lock(t, c)
       /\ UNCHANGED registryFrame
    \/ /\ \E t \in RegThreads : clear_all_caches_call(t)
       /\ UNCHANGED registryFrame
    \/ /\ \E t \in RegThreads : clear_all_caches_drop(t)
       /\ UNCHANGED registryFrame
    \/ /\ \E t \in RegThreads : clear_all_caches_return(t)
       /\ UNCHANGED registryFrame
    \/ /\ \E c \in CoordIds : on_change_notify(c)
       /\ UNCHANGED registryFrame
    \/ /\ on_change_return
       /\ UNCHANGED registryFrame

\* ---------------------------------------------------------- SpecNotifier
\* One coordinator's notifier state. The worker runs run_async_notifiers; it holds
\* m_notifier_mutex only inside a step. A client is a Realm on its own thread: it
\* commits, registers notifiers at its Realm's version and takes deliveries
\* through advance_to_ready and process_available_async, taking and releasing
\* m_notifier_mutex in steps of their own.
Clients == 1..MaxClients
NotifierIds == 1..MaxNotifiers
Versions == 1..MaxVersion
\* SharedGroup::VersionID{}: greater than every version.
NoVersion == MaxVersion + 1

\* A SharedGroup that is not open, and one that holds no read transaction.
NoSharedGroup == [open |-> FALSE, reading |-> FALSE, version |-> NoVersion]
end_read(sg) == IF sg.open THEN [sg EXCEPT !.reading = FALSE, !.version = NoVersion] ELSE sg
begin_read(v) == [open |-> TRUE, reading |-> TRUE, version |-> v]

NoNotifier(state) == [state |-> state, alive |-> FALSE, version |-> NoVersion, realm |-> 0,
                      error |-> FALSE]

IdleRun == [pc |-> "idle", notifiers |-> <<>>, new_notifiers |-> <<>>, version |-> NoVersion,
            required |-> <<>>, ran |-> {}]

IdleClient(v) == [pc |-> "idle", version |-> NoVersion, notifiers |-> {}, sg |-> v]

InitNotifier ==
    /\ latest = 1
    /\ bc = [n \in NotifierIds |-> NoNotifier("unborn")]
    /\ m_new_notifiers = <<>>
    /\ m_notifiers = <<>>
    /\ m_advancer_sg = NoSharedGroup
    /\ m_notifier_sg = NoSharedGroup
    /\ m_async_error = FALSE
    /\ m_notifier_mutex = NoThread
    /\ run = IdleRun
    /\ cl = [t \in Clients |-> IdleClient(1)]
    /\ assert_failed = FALSE
    /\ advanced_to = 0

Range(s) == {s[i] : i \in 1..Len(s)}

\* pin_version(version) without its latch test (a variant).
PinVersion_NoLatch(sg, error, staged, v, open_ok) ==
    IF ~sg.open
    THEN IF open_ok THEN [sg |-> begin_read(v), error |-> FALSE]
         ELSE [sg |-> NoSharedGroup, error |-> TRUE]
    ELSE IF staged = <<>> THEN [sg |-> begin_read(v), error |-> error]
    ELSE IF v < sg.version THEN [sg |-> begin_read(v), error |-> error]
    ELSE [sg |-> sg, error |-> error]

\* pin_version(version) on the advancer sg, with async error `error` and staged
\* list `staged`; open_ok tells whether Realm::open_with_config succeeds if called.
\* Gives the advancer and the async error afterwards.
PinVersion(sg, error, staged, v, open_ok) ==
    IF error THEN [sg |-> sg, error |-> error]
    ELSE IF ~sg.open
    THEN IF open_ok THEN [sg |-> begin_read(v), error |-> FALSE]
         ELSE [sg |-> NoSharedGroup, error |-> TRUE]
    ELSE IF staged = <<>> THEN [sg |-> begin_read(v), error |-> error]
    ELSE IF v < sg.version THEN [sg |-> begin_read(v), error |-> error]
    ELSE [sg |-> sg, error |-> error]

\* The outcomes of the open a call may make: both when it opens, success otherwise.
OpensAdvancer == ~m_async_error /\ ~m_advancer_sg.open
OpensHelper == ~m_async_error /\ ~m_notifier_sg.open
Outcomes(opens) == IF opens THEN BOOLEAN ELSE {TRUE}

Running == ~assert_failed

\* The places of a client where call_callbacks() runs: lines 512-514 of
\* advance_to_ready and lines 530-532 of process_available_async.
InCallbacks == {"advance_to_ready callbacks", "process_available_async callbacks"}

UnbornNotifiers == {n \in NotifierIds : bc[n].state = "unborn"}

\* register_notifier(notifier) by client t, from its thread's top level or from a
\* callback: a new notifier at the version of t's Realm is pinned and staged, under
\* m_notifier_mutex.
register_notifier(t, open_ok) ==
    LET n == CHOOSE x \in UnbornNotifiers : \A y \in UnbornNotifiers : x <= y
        v == cl[t].sg
        pinned == PinVersion(m_advancer_sg, m_async_error, m_new_notifiers, v, open_ok)
    IN
    /\ Running
    /\ cl[t].pc \in {"idle"} \cup InCallbacks
    /\ UnbornNotifiers # {}
    /\ m_notifier_mutex = NoThread
    /\ bc' = [bc EXCEPT ![n] = [state |-> "registered", alive |-> TRUE, version |-> v,
                                realm |-> t, error |-> FALSE]]
    /\ m_advancer_sg' = pinned.sg
    /\ m_async_error' = pinned.error
    /\ m_new_notifiers' = Append(m_new_notifiers, n)
    /\ UNCHANGED <<latest, advanced_to, m_notifiers, m_notifier_sg, m_notifier_mutex, run, cl,
                   assert_failed>>

\* Client t commits a write transaction: the file and t's Realm move to a new version.
commit(t) ==
    /\ Running
    /\ cl[t].pc = "idle"
    /\ latest < MaxVersion
    /\ latest' = latest + 1
    /\ cl' = [cl EXCEPT ![t].sg = latest + 1]
    /\ UNCHANGED <<advanced_to, bc, m_new_notifiers, m_notifiers, m_advancer_sg, m_notifier_sg,
                   m_async_error, m_notifier_mutex, run, assert_failed>>

\* The handle a notifier targets goes away: is_alive() is false from now on.
unregister(n) ==
    /\ Running
    /\ bc[n].state = "registered" /\ bc[n].alive
    /\ bc' = [bc EXCEPT ![n].alive = FALSE]
    /\ UNCHANGED <<latest, advanced_to, m_new_notifiers, m_notifiers, m_advancer_sg, m_notifier_sg,
                   m_async_error, m_notifier_mutex, run, cl, assert_failed>>

\* swap_remove that goes on to the next index after a removal (a variant).
RECURSIVE swap_remove_NoRecheck(_, _, _)
swap_remove_NoRecheck(B, container, i) ==
    IF i > Len(container) THEN container
    ELSE IF B[container[i]].alive THEN swap_remove_NoRecheck(B, container, i + 1)
    ELSE LET shorter == SubSeq(container, 1, Len(container) - 1)
         IN swap_remove_NoRecheck(B, IF i < Len(container)
                                     THEN [shorter EXCEPT ![i] = container[Len(container)]]
                                     ELSE shorter, i + 1)

\* swap_remove of clean_up_dead_notifiers from index i on: a dead notifier is
\* overwritten by the last one and the same index looked at again.
RECURSIVE swap_remove(_, _, _)
swap_remove(B, container, i) ==
    IF i > Len(container) THEN container
    ELSE IF B[container[i]].alive THEN swap_remove(B, container, i + 1)
    ELSE LET shorter == SubSeq(container, 1, Len(container) - 1)
         IN swap_remove(B, IF i < Len(container)
                           THEN [shorter EXCEPT ![i] = container[Len(container)]]
                           ELSE shorter, i)

\* clean_up_dead_notifiers() that leaves the advancer's read transaction alone (a
\* variant).
clean_up_dead_notifiers_KeepsRead(B, N, S, nsg, asg) ==
    LET N2 == swap_remove(B, N, 1)
        S2 == swap_remove(B, S, 1)
        removed == (Range(N) \ Range(N2)) \cup (Range(S) \ Range(S2))
    IN [bc |-> [n \in NotifierIds |-> IF n \in removed THEN NoNotifier("released") ELSE B[n]],
        notifiers |-> N2,
        new_notifiers |-> S2,
        notifier_sg |-> IF Len(N2) < Len(N) /\ N2 = <<>> THEN end_read(nsg) ELSE nsg,
        advancer_sg |-> asg]

\* clean_up_dead_notifiers() on the active list N and the staged list S: the lists
\* and the shared groups afterwards, and the notifiers with the removed ones'
\* data released.
clean_up_dead_notifiers(B, N, S, nsg, asg) ==
    LET N2 == swap_remove(B, N, 1)
        S2 == swap_remove(B, S, 1)
        removed == (Range(N) \ Range(N2)) \cup (Range(S) \ Range(S2))
    IN [bc |-> [n \in NotifierIds |-> IF n \in removed THEN NoNotifier("released") ELSE B[n]],
        notifiers |-> N2,
        new_notifiers |-> S2,
        notifier_sg |-> IF Len(N2) < Len(N) /\ N2 = <<>> THEN end_read(nsg) ELSE nsg,
        advancer_sg |-> IF Len(S2) < Len(S) /\ S2 = <<>> THEN end_read(asg) ELSE asg]

\* open_helper_shared_group(): the notifier sg and the async error afterwards.
open_helper_shared_group(nsg, N, open_ok) ==
    IF ~nsg.open
    THEN IF open_ok THEN [sg |-> begin_read(latest), error |-> FALSE]
         ELSE [sg |-> NoSharedGroup, error |-> TRUE]
    ELSE IF N = <<>> THEN [sg |-> begin_read(latest), error |-> FALSE]
    ELSE [sg |-> nsg, error |-> FALSE]

\* std::sort by version(): the staged notifiers in ascending order of version
\* (notifiers of one version in the order of their ids).
RECURSIVE SortByVersion(_)
SortByVersion(S) ==
    IF S = {} THEN <<>>
    ELSE LET first == CHOOSE n \in S : \A o \in S :
                          \/ bc[n].version < bc[o].version
                          \/ bc[n].version = bc[o].version /\ n <= o
         IN <<first>> \o SortByVersion(S \ {first})

\* Lines 343-361: the slot of change_info each of the sorted staged notifiers S,
\* from the i-th on, gives to add_required_change_info; `info` points to slot
\* `slot` and `version` is the version the advancer is at.
RECURSIVE fan_in_slots(_, _, _, _)
fan_in_slots(S, i, version, slot) ==
    IF i > Len(S) THEN <<>>
    ELSE LET next == IF version # bc[S[i]].version THEN slot + 1 ELSE slot
         IN <<next>> \o fan_in_slots(S, i + 1, bc[S[i]].version, next)

\* Lines 330-361: for each slot of change_info (slot i at index i + 1), the
\* notifiers that have given it to add_required_change_info when the fan-in is
\* over. `info` starts at change_info.back(), slot 1, and the advancer at the
\* first staged notifier's version.
RequiredBy(S) ==
    IF S = <<>> THEN <<{}>>
    ELSE LET slots == fan_in_slots(S, 1, bc[S[1]].version, 1)
         IN [i \in 1..(slots[Len(S)] + 1) |-> {S[k] : k \in {j \in 1..Len(S) : slots[j] + 1 = i}}]

\* run_async_notifiers() from line 308 to the unlock of line 375, or to the return
\* it takes before: under m_notifier_mutex, dead notifiers are reaped; with no
\* notifier left it returns; the notifier sg is opened unless an error is latched;
\* with an error latched the staged notifiers become active and it returns;
\* otherwise the staged notifiers are taken, sorted, the advancer checked to be at
\* the first one's version, advanced to the latest version and released. Gives
\* the coordinator's fields afterwards and, in run, the locals the call goes on
\* with (IdleRun when it has returned or the assertion failed).
Locked(open_ok) ==
    LET reaped == clean_up_dead_notifiers(bc, m_notifiers, m_new_notifiers,
                                          m_notifier_sg, m_advancer_sg)
        none == reaped.notifiers = <<>> /\ reaped.new_notifiers = <<>>
        helper == IF m_async_error THEN [sg |-> reaped.notifier_sg, error |-> TRUE]
                  ELSE open_helper_shared_group(reaped.notifier_sg, reaped.notifiers, open_ok)
        new_notifiers == SortByVersion(Range(reaped.new_notifiers))
        asserted == new_notifiers = <<>>
                        \/ reaped.advancer_sg.version = bc[new_notifiers[1]].version
        returned == [bc |-> reaped.bc,
                     m_notifiers |-> reaped.notifiers,
                     m_new_notifiers |-> reaped.new_notifiers,
                     m_notifier_sg |-> reaped.notifier_sg,
                     m_advancer_sg |-> reaped.advancer_sg,
                     m_async_error |-> m_async_error,
                     assert_failed |-> FALSE,
                     run |-> IdleRun]
    IN
    IF none THEN returned
    ELSE IF helper.error
    THEN [returned EXCEPT !.m_notifiers = reaped.notifiers \o reaped.new_notifiers,
                          !.m_new_notifiers = <<>>,
                          !.m_notifier_sg = helper.sg,
                          !.m_async_error = TRUE]
    ELSE [returned EXCEPT
             !.m_new_notifiers = <<>>,
             !.m_notifier_sg = helper.sg,
             !.assert_failed = ~asserted,
             !.m_advancer_sg = IF new_notifiers = <<>> \/ ~asserted THEN reaped.advancer_sg
                               ELSE end_read(reaped.advancer_sg),
             !.run = IF ~asserted THEN IdleRun
                     ELSE [pc |-> "unlocked", notifiers |-> reaped.notifiers,
                           new_notifiers |-> new_notifiers,
                           version |-> IF new_notifiers = <<>> THEN NoVersion ELSE latest,
                           required |-> RequiredBy(new_notifiers),
                           ran |-> {}]]

\* The locked part of run_async_notifiers() on the worker, taken as one step.
run_async_notifiers_lock(open_ok) ==
    LET after == Locked(open_ok)
    IN
    /\ Running
    /\ run.pc = "idle"
    /\ m_notifier_mutex = NoThread
    /\ bc' = after.bc
    /\ m_notifiers' = after.m_notifiers
    /\ m_new_notifiers' = after.m_new_notifiers
    /\ m_notifier_sg' = after.m_notifier_sg
    /\ m_advancer_sg' = after.m_advancer_sg
    /\ m_async_error' = after.m_async_error
    /\ assert_failed' = after.assert_failed
    /\ run' = after.run
    /\ UNCHANGED <<latest, advanced_to, m_notifier_mutex, cl>>

\* The version of the first staged notifier, read at line 340 and not read again
\* at line 368 (a variant).
AdvanceTarget_Origin(r) ==
    IF r.new_notifiers = <<>> THEN latest ELSE bc[r.new_notifiers[1]].version

\* The version line 381 advances the notifier sg to: `version`, the version the
\* advancer reached at line 368, or the latest one when `version` is still
\* VersionID{} (no staged notifier).
AdvanceTarget(r) == IF r.version = NoVersion THEN latest ELSE r.version

\* run() called on the local list before the new notifiers have joined it (a
\* variant).
Unlocked_RunBeforeJoin(r) ==
    [r EXCEPT !.pc = "relock", !.notifiers = @ \o r.new_notifiers, !.new_notifiers = <<>>,
              !.required[1] = Range(r.notifiers),
              !.ran = Range(r.notifiers)]

\* The unlocked part without the join of line 387 (a variant).
Unlocked_WithoutJoin(r) ==
    [r EXCEPT !.pc = "relock", !.new_notifiers = <<>>,
              !.required[1] = Range(r.notifiers),
              !.ran = Range(r.notifiers)]

\* Lines 377-379, 384-387 and 420-426 for the locals r: the notifiers of the copied
\* list give change_info[0] to add_required_change_info, the new notifiers join
\* the local list, run() is called on each and the call waits for the mutex.
Unlocked(r) ==
    [r EXCEPT !.pc = "relock", !.notifiers = @ \o r.new_notifiers, !.new_notifiers = <<>>,
              !.required[1] = Range(r.notifiers),
              !.ran = Range(r.notifiers \o r.new_notifiers)]

\* Lines 377-422, without the mutex: the notifier sg is advanced to the version
\* the advancer reached (to the latest version if there was no staged notifier) and
\* the new notifiers join the local list.
run_async_notifiers_advance ==
    /\ Running
    /\ run.pc = "unlocked"
    /\ m_notifier_sg' = begin_read(AdvanceTarget(run))
    /\ advanced_to' = AdvanceTarget(run)
    /\ run' = Unlocked(run)
    /\ UNCHANGED <<latest, bc, m_new_notifiers, m_notifiers, m_advancer_sg, m_async_error,
                   m_notifier_mutex, cl, assert_failed>>

\* Lines 427-429 for the locals r: the notifiers after prepare_handover() has
\* given every one of the local list the version of the notifier sg.
Handed(r) ==
    [n \in NotifierIds |->
        IF n \in Range(r.notifiers)
        THEN [bc[n] EXCEPT !.version = m_notifier_sg.version] ELSE bc[n]]

\* Lines 427-431 for the locals r: prepare_handover() gives every notifier of the
\* local list the version of the notifier sg, the list is installed and dead
\* notifiers are reaped. Gives what clean_up_dead_notifiers leaves.
Installed(r) ==
    clean_up_dead_notifiers(Handed(r), r.notifiers, m_new_notifiers,
                            m_notifier_sg, m_advancer_sg)

\* Lines 426-431 on the worker, under the mutex again.
run_async_notifiers_install ==
    LET reaped == Installed(run)
    IN
    /\ Running
    /\ run.pc = "relock"
    /\ m_notifier_mutex = NoThread
    /\ bc' = reaped.bc
    /\ m_notifiers' = reaped.notifiers
    /\ m_new_notifiers' = reaped.new_notifiers
    /\ m_notifier_sg' = reaped.notifier_sg
    /\ m_advancer_sg' = reaped.advancer_sg
    /\ run' = IdleRun
    /\ UNCHANGED <<latest, advanced_to, m_async_error, m_notifier_mutex, cl, assert_failed>>

\* get_notifier_version of advance_to_ready: the version of the first active
\* notifier that has one.
get_notifier_version ==
    LET with == SelectSeq(m_notifiers, LAMBDA n : bc[n].version # NoVersion)
    IN IF with = <<>> THEN NoVersion ELSE bc[with[1]].version

\* No unlock (a variant).
Unlock_Never(t) == t
\* The unlock at the end of a lock_guard's scope, by the thread that holds it.
Unlock(t) == NoThread

\* notifier->deliver(sg, m_async_error) for client t's Realm is true for the
\* notifiers of that Realm that are alive; the notifier keeps the error it is given.
Deliverable(t) == {n \in Range(m_notifiers) : bc[n].alive /\ bc[n].realm = t}
Delivered(t) ==
    [n \in NotifierIds |->
        IF n \in Deliverable(t) /\ m_async_error THEN [bc[n] EXCEPT !.error = TRUE] ELSE bc[n]]

\* advance_to_ready(realm) by client t, lines 471-486: the notifier version is read
\* under the mutex; with no notifier the Realm advances to the latest version, with
\* an older one nothing happens, otherwise the loop is entered.
advance_to_ready_begin(t) ==
    LET version == get_notifier_version
    IN
    /\ Running
    /\ cl[t].pc = "idle"
    /\ m_notifier_mutex = NoThread
    /\ cl' = IF version = NoVersion THEN [cl EXCEPT ![t].sg = latest]
             ELSE IF version < cl[t].sg THEN cl
             ELSE [cl EXCEPT ![t].pc = "advance", ![t].version = version]
    /\ UNCHANGED <<latest, advanced_to, bc, m_new_notifiers, m_notifiers, m_advancer_sg, m_notifier_sg,
                   m_async_error, m_notifier_mutex, run, assert_failed>>

\* Lines 491-496: the Realm advances to the version read, with no lock held, and
\* the mutex is taken.
advance_to_ready_advance(t) ==
    /\ Running
    /\ cl[t].pc = "advance"
    /\ m_notifier_mutex = NoThread
    /\ m_notifier_mutex' = t
    /\ cl' = [cl EXCEPT ![t].pc = "recheck", ![t].sg = cl[t].version]
    /\ UNCHANGED <<latest, advanced_to, bc, m_new_notifiers, m_notifiers, m_advancer_sg, m_notifier_sg,
                   m_async_error, run, assert_failed>>

\* Lines 497-510, holding the mutex: the version is read again; the call returns,
\* goes round the loop once more or delivers; the lock_guard ends in each case.
advance_to_ready_recheck(t) ==
    LET version == get_notifier_version
    IN
    /\ Running
    /\ cl[t].pc = "recheck"
    /\ m_notifier_mutex = t
    /\ m_notifier_mutex' = Unlock(t)
    /\ IF version = NoVersion
       THEN /\ cl' = [cl EXCEPT ![t].pc = "idle", ![t].version = NoVersion]
            /\ UNCHANGED bc
       ELSE IF version # cl[t].sg
       THEN /\ cl' = [cl EXCEPT ![t].pc = "advance", ![t].version = version]
            /\ UNCHANGED bc
       ELSE /\ cl' = [cl EXCEPT ![t].pc = "advance_to_ready callbacks",
                                ![t].version = NoVersion,
                                ![t].notifiers = Deliverable(t)]
            /\ bc' = Delivered(t)
    /\ UNCHANGED <<latest, advanced_to, m_new_notifiers, m_notifiers, m_advancer_sg, m_notifier_sg,
                   m_async_error, run, assert_failed>>

\* process_available_async(realm) by client t, line 522: the mutex is taken.
process_available_async_lock(t) ==
    /\ Running
    /\ cl[t].pc = "idle"
    /\ m_notifier_mutex = NoThread
    /\ m_notifier_mutex' = t
    /\ cl' = [cl EXCEPT ![t].pc = "deliver"]
    /\ UNCHANGED <<latest, advanced_to, bc, m_new_notifiers, m_notifiers, m_advancer_sg, m_notifier_sg,
                   m_async_error, run, assert_failed>>

\* Lines 523-528: every active notifier is delivered to and the lock_guard ends.
process_available_async_deliver(t) ==
    /\ Running
    /\ cl[t].pc = "deliver"
    /\ m_notifier_mutex = t
    /\ m_notifier_mutex' = Unlock(t)
    /\ cl' = [cl EXCEPT ![t].pc = "process_available_async callbacks",
                        ![t].notifiers = Deliverable(t)]
    /\ bc' = Delivered(t)
    /\ UNCHANGED <<latest, advanced_to, m_new_notifiers, m_notifiers, m_advancer_sg, m_notifier_sg,
                   m_async_error, run, assert_failed>>

\* Lines 512-514 and 530-532: call_callbacks() on the notifiers delivered to; the
\* call returns. (A callback that registers a notifier is register_notifier at this
\* place.)
call_callbacks(t) ==
    /\ Running
    /\ cl[t].pc \in InCallbacks
    /\ cl' = [cl EXCEPT ![t].pc = "idle", ![t].notifiers = {}]
    /\ UNCHANGED <<latest, advanced_to, bc, m_new_notifiers, m_notifiers, m_advancer_sg, m_notifier_sg,
                   m_async_error, m_notifier_mutex, run, assert_failed>>

NextNotifier ==
    \/ /\ \E t \in Clients, open_ok \in Outcomes(OpensAdvancer) : register_notifier(t, open_ok)
       /\ UNCHANGED notifierFrame
    \/ /\ \E t \in Clients : commit(t)
       /\ UNCHANGED notifierFrame
    \/ /\ \E n \in NotifierIds : unregister(n)
       /\ UNCHANGED notifierFrame
    \/ /\ \E open_ok \in Outcomes(OpensHelper) : run_async_notifiers_lock(open_ok)
       /\ UNCHANGED notifierFrame
    \/ /\ run_async_notifiers_advance
       /\ UNCHANGED notifierFrame
    \/ /\ run_async_notifiers_install
       /\ UNCHANGED notifierFrame
    \/ /\ \E t \in Clients : advance_to_ready_begin(t)
       /\ UNCHANGED notifierFrame
    \/ /\ \E t \in Clients : advance_to_ready_advance(t)
       /\ UNCHANGED notifierFrame
    \/ /\ \E t \in Clients : advance_to_ready_recheck(t)
       /\ UNCHANGED notifierFrame
    \/ /\ \E t \in Clients : process_available_async_lock(t)
       /\ UNCHANGED notifierFrame
    \/ /\ \E t \in Clients : process_available_async_deliver(t)
       /\ UNCHANGED notifierFrame
    \/ /\ \E t \in Clients : call_callbacks(t)
       /\ UNCHANGED notifierFrame

\* ----------------------------------------------------------- SpecWorkers
\* One coordinator's notifier state when on_change() is called on several threads
\* at once: each thread runs run_async_notifiers as the worker of SpecNotifier
\* does, with locals of its own, and the clients register notifiers and commit.
\* The threads share m_notifier_sg, which lines 377-422 use with no lock held.
WorkerIds == 1..MaxWorkers

InitWorkers ==
    /\ workers = [w \in WorkerIds |-> IdleRun]
    /\ data_race = FALSE

\* The threads other than w that are between the unlock of line 375 and the lock
\* of line 426.
OthersUnlocked(w) == {o \in WorkerIds \ {w} : workers[o].pc = "unlocked"}

\* std::unique_lock on m_notifier_mutex, line 308: the thread gets the mutex when
\* no thread holds it. Every thread of this machine holds it inside a step only.
NotifierMutexFree == m_notifier_mutex = NoThread

\* run_async_notifiers() on thread w, from line 308 to the unlock of line 375 or
\* the return before it.
worker_lock(w, open_ok) ==
    LET after == Locked(open_ok)
    IN
    /\ Running
    /\ workers[w].pc = "idle"
    /\ NotifierMutexFree
    /\ bc' = after.bc
    /\ m_notifiers' = after.m_notifiers
    /\ m_new_notifiers' = after.m_new_notifiers
    /\ m_notifier_sg' = after.m_notifier_sg
    /\ m_advancer_sg' = after.m_advancer_sg
    /\ m_async_error' = after.m_async_error
    /\ assert_failed' = after.assert_failed
    /\ workers' = [workers EXCEPT ![w] = after.run]
    /\ UNCHANGED <<latest, advanced_to, m_notifier_mutex, cl, run, data_race>>

\* Lines 377-422 on thread w, with no lock held. When another thread is inside
\* these lines too, both use m_notifier_sg at once: the behaviour is undefined, and
\* the notifier sg may be left at any version.
worker_advance(w) ==
    /\ Running
    /\ workers[w].pc = "unlocked"
    /\ IF OthersUnlocked(w) = {}
       THEN /\ m_notifier_sg' = begin_read(AdvanceTarget(workers[w]))
            /\ UNCHANGED data_race
       ELSE /\ \E v \in 1..latest : m_notifier_sg' = begin_read(v)
            /\ data_race' = TRUE
    /\ advanced_to' = m_notifier_sg'.version
    /\ workers' = [workers EXCEPT ![w] = Unlocked(workers[w])]
    /\ UNCHANGED <<latest, bc, m_new_notifiers, m_notifiers, m_advancer_sg, m_async_error,
                   m_notifier_mutex, cl, assert_failed, run>>

\* Lines 426-431 on thread w, under the mutex again.
worker_install(w) ==
    LET reaped == Installed(workers[w])
    IN
    /\ Running
    /\ workers[w].pc = "relock"
    /\ NotifierMutexFree
    /\ bc' = reaped.bc
    /\ m_notifiers' = reaped.notifiers
    /\ m_new_notifiers' = reaped.new_notifiers
    /\ m_notifier_sg' = reaped.notifier_sg
    /\ m_advancer_sg' = reaped.advancer_sg
    /\ workers' = [workers EXCEPT ![w] = IdleRun]
    /\ UNCHANGED <<latest, advanced_to, m_async_error, m_notifier_mutex, cl, assert_failed,
                   run, data_race>>

NextWorkers ==
    \/ /\ \E t \in Clients, open_ok \in Outcomes(OpensAdvancer) : register_notifier(t, open_ok)
       /\ UNCHANGED notifierFrame
    \/ /\ \E t \in Clients : commit(t)
       /\ UNCHANGED notifierFrame
    \/ /\ \E n \in NotifierIds : unregister(n)
       /\ UNCHANGED notifierFrame
    \/ /\ \E w \in WorkerIds, open_ok \in Outcomes(OpensHelper) : worker_lock(w, open_ok)
       /\ UNCHANGED workersFrame
    \/ /\ \E w \in WorkerIds : worker_advance(w)
       /\ UNCHANGED workersFrame
    \/ /\ \E w \in WorkerIds : worker_install(w)
       /\ UNCHANGED workersFrame

\* ------------------------------------------------------------ SpecAccess
\* The fields m_config, m_notifier and m_weak_realm_notifiers of one coordinator:
\* which member function reads and writes which of them, and which mutexes the
\* calling thread holds while it does. A thread enters a function, taking the
\* mutexes the function locks, is inside it while it uses the fields, and leaves it.
Callers == 1..MaxCallers

Fields == {"m_config", "m_notifier", "m_weak_realm_notifiers"}

\* The member functions that use the fields.
Functions == {"get_realm", "unregister_realm", "on_change", "clear_cache",
              "send_commit_notifications", "update_schema", "get_schema"}

\* The mutexes a function holds while it uses the fields: the lock_guards of lines
\* 65, 153, 300 and 163; lines 124-134 and 209-215 take none.
LocksOf(f) ==
    IF f \in {"get_realm", "unregister_realm", "on_change"} THEN {"m_realm_mutex"}
    ELSE IF f = "clear_cache" THEN {"s_coordinator_mutex"}
    ELSE {}

\* The fields a function reads.
ReadsOf(f) ==
    IF f = "get_realm" THEN {"m_config", "m_notifier", "m_weak_realm_notifiers"}
    ELSE IF f = "unregister_realm" THEN {"m_weak_realm_notifiers"}
    ELSE IF f = "on_change" THEN {"m_weak_realm_notifiers"}
    ELSE IF f = "clear_cache" THEN {"m_weak_realm_notifiers"}
    ELSE IF f = "send_commit_notifications" THEN {"m_config", "m_notifier"}
    ELSE IF f = "get_schema" THEN {"m_config", "m_weak_realm_notifiers"}
    ELSE {}

\* The fields a function writes.
WritesOf(f) ==
    IF f = "get_realm" THEN {"m_config", "m_notifier", "m_weak_realm_notifiers"}
    ELSE IF f = "unregister_realm" THEN {"m_weak_realm_notifiers"}
    ELSE IF f = "clear_cache" THEN {"m_notifier"}
    ELSE IF f = "update_schema" THEN {"m_config"}
    ELSE {}

NotInCall == [function |-> "none", locks |-> {}]

InitAccess == in_call = [t \in Callers |-> NotInCall]

\* The mutexes held by some thread.
HeldMutexes == UNION {in_call[t].locks : t \in Callers}

\* Thread t calls f: it gets the mutexes f locks once no thread holds them.
Enter(t, f) ==
    /\ in_call[t] = NotInCall
    /\ LocksOf(f) \cap HeldMutexes = {}
    /\ in_call' = [in_call EXCEPT ![t] = [function |-> f, locks |-> LocksOf(f)]]

\* Thread t returns from the function it is inside; its lock_guard ends.
Leave_call(t) ==
    /\ in_call[t] # NotInCall
    /\ in_call' = [in_call EXCEPT ![t] = NotInCall]

NextAccess ==
    \/ /\ \E t \in Callers : Enter(t, "get_realm")
       /\ UNCHANGED accessFrame
    \/ /\ \E t \in Callers : Enter(t, "unregister_realm")
       /\ UNCHANGED accessFrame
    \/ /\ \E t \in Callers : Enter(t, "on_change")
       /\ UNCHANGED accessFrame
    \/ /\ \E t \in Callers : Enter(t, "clear_cache")
       /\ UNCHANGED accessFrame
    \/ /\ \E t \in Callers : Enter(t, "send_commit_notifications")
       /\ UNCHANGED accessFrame
    \/ /\ \E t \in Callers : Enter(t, "update_schema")
       /\ UNCHANGED accessFrame
    \/ /\ \E t \in Callers : Enter(t, "get_schema")
       /\ UNCHANGED accessFrame
    \/ /\ \E t \in Callers : Leave_call(t)
       /\ UNCHANGED accessFrame

\* ------------------------------------------------------------- SpecMerge
\* The change_info of one run_async_notifiers cycle, lines 326-406, for every
\* history of commits, every sorted list of staged notifiers' versions and every
\* version of the notifier sg that the bounds allow. The advancer is at the first
\* staged notifier's version (the REALM_ASSERT of line 341 passed) and the cycle's
\* final version is the latest one, MaxMergeVersion. A CollectionChangeBuilder is
\* the sequence of the commits whose changes it holds; merge() appends.
MergeVersions == 1..MaxMergeVersion
Tables == 1..MaxTables

\* TransactionChangeInfo{}.
NoChanges == [tables |-> <<>>]

\* The sequences of at most MaxStaged versions in ascending order.
SortedVersions ==
    {q \in UNION {[1..n -> MergeVersions] : n \in 0..MaxStaged} :
        \A i \in 1..(Len(q) - 1) : q[i] <= q[i + 1]}

InitMerge ==
    /\ commits \in [2..MaxMergeVersion -> SUBSET Tables]
    /\ staged_versions \in SortedVersions
    /\ notifier_version \in MergeVersions
    /\ change_info = <<>>
    /\ info = 0
    /\ cycle_version = 0
    /\ slot_of = <<>>
    /\ merge_pc = "start"
    /\ merge_i = 0

\* The change of table j by commit c emitted into the sink: the sink's tables grow
\* to hold table j and the table's builder takes the change.
Emit(tables, j, c) ==
    LET grown == [k \in 1..(IF j > Len(tables) THEN j ELSE Len(tables)) |->
                     IF k <= Len(tables) THEN tables[k] ELSE <<>>]
    IN [grown EXCEPT ![j] = Append(@, c)]

RECURSIVE EmitCommit(_, _, _)
EmitCommit(tables, c, j) ==
    IF j > MaxTables THEN tables
    ELSE EmitCommit(IF j \in commits[c] THEN Emit(tables, j, c) ELSE tables, c, j + 1)

\* transaction::advance(sg, sink, to) of a sg at version from: the table changes
\* of the commits after from up to to are emitted into the sink, in order.
RECURSIVE advance(_, _, _)
advance(sink, from, to) ==
    IF from >= to THEN sink
    ELSE advance([sink EXCEPT !.tables = EmitCommit(@, from + 1, 1)], from + 1, to)

\* Lines 330-343: change_info is resized and `info` points to its last slot.
cycle_begin ==
    /\ merge_pc = "start"
    /\ IF staged_versions = <<>>
       THEN /\ change_info' = <<NoChanges>>
            /\ cycle_version' = MaxMergeVersion
            /\ info' = 0
            /\ merge_pc' = "advance notifier_sg"
       ELSE /\ change_info' = <<NoChanges, NoChanges>>
            /\ cycle_version' = staged_versions[1]
            /\ info' = 2
            /\ merge_pc' = "fan in"
    /\ UNCHANGED <<commits, staged_versions, notifier_version, slot_of, merge_i>>

\* Lines 352-361, the body of the loop for the next staged notifier: if it is of
\* another version the advancer is advanced to it into the current slot and a new
\* slot is pushed; the notifier gives the current slot to add_required_change_info.
fan_in ==
    LET n == Len(slot_of) + 1
        v == staged_versions[n]
        moved == cycle_version # v
        advanced == [change_info EXCEPT ![info] = advance(@, cycle_version, v)]
    IN
    /\ merge_pc = "fan in"
    /\ n <= Len(staged_versions)
    /\ change_info' = IF moved THEN Append(advanced, NoChanges) ELSE change_info
    /\ info' = IF moved THEN Len(change_info) + 1 ELSE info
    /\ cycle_version' = v
    /\ slot_of' = Append(slot_of, IF moved THEN Len(change_info) + 1 ELSE info)
    /\ UNCHANGED <<commits, staged_versions, notifier_version, merge_pc, merge_i>>

\* Lines 363-369: the advancer is advanced to the latest version into the current
\* slot; `version` is that version.
advance_to_latest ==
    /\ merge_pc = "fan in"
    /\ Len(slot_of) = Len(staged_versions)
    /\ change_info' = [change_info EXCEPT ![info] = advance(@, cycle_version, MaxMergeVersion)]
    /\ cycle_version' = MaxMergeVersion
    /\ merge_pc' = "advance notifier_sg"
    /\ UNCHANGED <<commits, staged_versions, notifier_version, info, slot_of, merge_i>>

\* Line 381: the notifier sg is advanced to `version` into change_info[0]; line 389
\* sets i to change_info.size() - 1.
advance_notifier_sg ==
    /\ merge_pc = "advance notifier_sg"
    /\ change_info' = [change_info EXCEPT ![1] = advance(@, notifier_version, cycle_version)]
    /\ merge_i' = Len(change_info) - 1
    /\ merge_pc' = "merge"
    /\ UNCHANGED <<commits, staged_versions, notifier_version, info, cycle_version, slot_of>>

\* The body of the loop of lines 389-406 that leaves prev as it is when it has no
\* tables (a variant).
MergeInto_NoCopy(prev, cur) ==
    IF cur.tables = <<>> \/ prev.tables = <<>> THEN prev
    ELSE [tables |->
             [j \in 1..(IF Len(cur.tables) > Len(prev.tables) THEN Len(cur.tables)
                        ELSE Len(prev.tables)) |->
                 IF j > Len(prev.tables) THEN cur.tables[j]
                 ELSE IF j > Len(cur.tables) THEN prev.tables[j]
                 ELSE prev.tables[j] \o cur.tables[j]]]

\* The body of the loop of lines 389-406: prev after cur is merged into it.
MergeInto(prev, cur) ==
    IF cur.tables = <<>> THEN prev
    ELSE IF prev.tables = <<>> THEN [prev EXCEPT !.tables = cur.tables]
    ELSE [tables |->
             [j \in 1..(IF Len(cur.tables) > Len(prev.tables) THEN Len(cur.tables)
                        ELSE Len(prev.tables)) |->
                 IF j > Len(prev.tables) THEN cur.tables[j]
                 ELSE IF j > Len(cur.tables) THEN prev.tables[j]
                 ELSE prev.tables[j] \o cur.tables[j]]]

\* One turn of the loop of line 389, for i > 1: change_info[i] is merged into
\* change_info[i - 1].
merge_step ==
    /\ merge_pc = "merge"
    /\ merge_i > 1
    /\ change_info' = [change_info EXCEPT
                          ![merge_i] = MergeInto(@, change_info[merge_i + 1])]
    /\ merge_i' = merge_i - 1
    /\ UNCHANGED <<commits, staged_versions, notifier_version, info, cycle_version, slot_of,
                   merge_pc>>

\* The loop of line 389 ends.
merge_end ==
    /\ merge_pc = "merge"
    /\ merge_i <= 1
    /\ merge_pc' = "merged"
    /\ UNCHANGED <<commits, staged_versions, notifier_version, change_info, info,
                   cycle_version, slot_of, merge_i>>

NextMerge ==
    \/ /\ cycle_begin
       /\ UNCHANGED mergeFrame
    \/ /\ fan_in
       /\ UNCHANGED mergeFrame
    \/ /\ advance_to_latest
       /\ UNCHANGED mergeFrame
    \/ /\ advance_notifier_sg
       /\ UNCHANGED mergeFrame
    \/ /\ merge_step
       /\ UNCHANGED mergeFrame
    \/ /\ merge_end
       /\ UNCHANGED mergeFrame

vars == <<realmVars, registryVars, notifierVars, mergeVars, workerVars, accessVars>>

\* The cycle of SpecMerge that the other specifications leave alone: no commit,
\* no staged notifier.
NoCycle ==
    /\ commits = [c \in 2..MaxMergeVersion |-> {}]
    /\ staged_versions = <<>>
    /\ notifier_version = MaxMergeVersion

Init == InitRealm /\ InitRegistry /\ InitNotifier /\ InitWorkers /\ InitAccess /\ InitMerge /\ NoCycle

InitCycles == InitRealm /\ InitRegistry /\ InitNotifier /\ InitWorkers /\ InitAccess /\ InitMerge

SpecRealm == Init /\ [][NextRealm]_vars

SpecRegistry == Init /\ [][NextRegistry]_vars

SpecNotifier == Init /\ [][NextNotifier]_vars

SpecWorkers == Init /\ [][NextWorkers]_vars

SpecAccess == Init /\ [][NextAccess]_vars

SpecMerge == InitCycles /\ [][NextMerge]_vars

\* ---------------------------------------------------- claims on SpecRealm
\* The config agrees with the coordinator's on the four fields get_realm compares.
Matches(config) ==
    /\ config.read_only = m_config.read_only
    /\ config.in_memory = m_config.in_memory
    /\ config.encryption_key = m_config.encryption_key
    /\ config.schema_version \in {m_config.schema_version, NotVersioned}

\* The Realms of thread t that are alive and registered as cache-eligible, in the
\* order of their entries.
LiveCachedFor(t) ==
    SelectSeq(m_weak_realm_notifiers,
              LAMBDA e : e.cache /\ realms[e.realm].state = "open" /\ realms[e.realm].thread = t)

HasReadOnlyEntry ==
    \E i \in DOMAIN m_weak_realm_notifiers : realms[m_weak_realm_notifiers[i].realm].read_only

\* C2 (as claimed): in every step that starts and ends with a non-empty
\* m_weak_realm_notifiers, the coordinator's read_only, in_memory, encryption_key
\* and schema_version stay what they were.
C2_ConfigImmutableWhileHandles ==
    [][(m_weak_realm_notifiers # <<>> /\ m_weak_realm_notifiers' # <<>>)
          => /\ m_config'.read_only = m_config.read_only
             /\ m_config'.in_memory = m_config.in_memory
             /\ m_config'.encryption_key = m_config.encryption_key
             /\ m_config'.schema_version = m_config.schema_version]_vars

\* C3: in every reachable state whose m_weak_realm_notifiers holds an entry of a
\* Realm opened with read_only = true, every get_realm call with a config whose
\* read_only is false, on any thread and whatever the environment answers, throws
\* MismatchedConfigException ("read permissions"), returns no Realm and leaves
\* m_weak_realm_notifiers as it was.
C3_ReadOnlyRejectsWritable ==
    HasReadOnlyEntry =>
        \A config \in Configs, t \in Threads, helper_ok \in BOOLEAN, open_ok \in BOOLEAN :
            ~config.read_only =>
                LET r == GetRealm(config, t, helper_ok, open_ok)
                IN /\ r.result = "MismatchedConfig: read permissions"
                   /\ r.realm = NoRealm
                   /\ r.m_weak_realm_notifiers = m_weak_realm_notifiers
                   /\ r.realms = realms

\* C3, witness: a get_realm call has just been rejected for its read permissions
\* while the entry of a Realm opened read-only is registered.
C3_Witness ==
    /\ ret.op = "get_realm"
    /\ ret.result = "MismatchedConfig: read permissions"
    /\ HasReadOnlyEntry

\* What C4 says of one get_realm call. A Realm returned from the cache lookup is
\* alive, registered and was opened on the calling thread; and a call with
\* cache = true and a matching config, made while a live cache-eligible Realm of the
\* calling thread is registered, returns the first such Realm and leaves
\* m_weak_realm_notifiers as it was. With may_fail, the call may instead throw
\* AccessError when it has to construct the commit helper and cannot.
CacheLookupContract(config, t, helper_ok, open_ok, may_fail) ==
    LET r == GetRealm(config, t, helper_ok, open_ok)
    IN /\ r.result = "cached" =>
              /\ realms[r.realm].state = "open"
              /\ realms[r.realm].thread = t
              /\ \E i \in DOMAIN m_weak_realm_notifiers :
                     m_weak_realm_notifiers[i].realm = r.realm
              /\ r.m_weak_realm_notifiers = m_weak_realm_notifiers
       /\ (config.cache /\ Matches(config) /\ LiveCachedFor(t) # <<>>) =>
              /\ r.m_weak_realm_notifiers = m_weak_realm_notifiers
              /\ \/ r.result = "cached" /\ r.realm = LiveCachedFor(t)[1].realm
                 \/ /\ may_fail
                    /\ r.result = "AccessError"
                    /\ ~helper_ok /\ ~m_notifier /\ ~config.read_only
                    /\ config.automatic_change_notifications

\* C4 (as claimed): in every reachable state, every get_realm call keeps the cache
\* lookup contract, and never fails when a matching cache = true config finds a
\* live cache-eligible Realm of the calling thread.
C4_CachedOpenAlwaysReturnsHandle ==
    \A config \in Configs, t \in Threads, helper_ok \in BOOLEAN, open_ok \in BOOLEAN :
        CacheLookupContract(config, t, helper_ok, open_ok, FALSE)

\* C4 (amended): in every reachable state, every get_realm call keeps the cache
\* lookup contract, where a call that has to construct the commit helper (writable
\* config, automatic change notifications, no helper yet) and cannot throws
\* AccessError instead of returning the cached Realm; m_weak_realm_notifiers is
\* unchanged either way.
C4_CacheLookup ==
    \A config \in Configs, t \in Threads, helper_ok \in BOOLEAN, open_ok \in BOOLEAN :
        CacheLookupContract(config, t, helper_ok, open_ok, TRUE)

\* C4, witness: the second open of one thread returned its cached Realm, and the
\* coordinator holds exactly one entry.
C4_Witness ==
    /\ ret.op = "get_realm"
    /\ ret.result = "cached"
    /\ Len(m_weak_realm_notifiers) = 1
    /\ m_weak_realm_notifiers[1].realm = ret.realm
    /\ realms[ret.realm].state = "open"

\* ------------------------------------------------ claims on SpecRegistry

\* C1: in every reachable state there is at most one live coordinator for each
\* path, a coordinator counting as live only while a shared_ptr to it exists (one
\* whose last reference is gone counts as destroyed, its destructor run or not).
C1_OneLiveCoordinatorPerPath ==
    \A c1, c2 \in CoordIds :
        (Alive(c1) /\ Alive(c2) /\ coordinators[c1].path = coordinators[c2].path)
            => c1 = c2

OpenHandles == {h \in HandleIds : handles[h].state = "open"}

\* C7: when clear_cache() returns, it has called close() on every Realm that was
\* open in the list of the coordinator it was called on when the call took
\* s_coordinator_mutex (Realms closed or destroyed by someone else in the meantime
\* set aside), and a call that follows an earlier clear_cache with no Realm opened
\* since has called close() on none.
C7_ClearCacheClosesEveryHandle ==
    [][\A t \in RegThreads :
          clear_cache_return(t) =>
              /\ th[t].clear.missed \cap OpenHandles = {}
              /\ th[t].clear.repeat => ~th[t].clear.closed_any]_vars

\* C8: a thread inside clear_all_caches never waits for s_coordinator_mutex while
\* holding it itself (the only lock taken under another lock in this machine), and
\* once its clear_cache() call on a coordinator has returned the registry has no
\* entry for that coordinator.
C8_ClearAllCachesNeverDeadlocks ==
    \A t \in RegThreads :
        th[t].cac # NoCoord =>
            /\ ~(th[t].pc = "dtor" /\ s_coordinator_mutex = t)
            /\ th[t].pc = "cac_drop" =>
                   \A p \in Paths : s_coordinators_per_path[p] # th[t].cac

\* ------------------------------------------------ claims on SpecNotifier

\* The least version() of the notifiers of a list.
MinVersion(S) == CHOOSE v \in {bc[n].version : n \in Range(S)} :
                     \A n \in Range(S) : v <= bc[n].version

\* C5: whenever m_notifier_mutex is free, notifiers are staged and no error is
\* latched, the advancer's read transaction is at the least version() of the
\* staged notifiers; and the REALM_ASSERT of line 341 never fails.
C5_AdvancerAtMinimumStagedVersion ==
    /\ ~assert_failed
    /\ (m_notifier_mutex = NoThread /\ m_new_notifiers # <<>> /\ ~m_async_error)
           => /\ m_advancer_sg.reading
              /\ m_advancer_sg.version = MinVersion(m_new_notifiers)

\* C6: a client inside call_callbacks(), in advance_to_ready or in
\* process_available_async, does not hold m_notifier_mutex (the only coordinator
\* mutex those two functions take), so that a callback's register_notifier is not
\* waiting for its own thread.
C6_NoCallbackUnderMutex ==
    \A t \in Clients : cl[t].pc \in InCallbacks => m_notifier_mutex # t

\* Callbacks of delivered notifiers are running in both functions at once, with
\* the mutex free for a callback that registers a notifier.
C6_Witness ==
    /\ \E t \in Clients : /\ cl[t].pc = "advance_to_ready callbacks"
                          /\ cl[t].notifiers # {}
    /\ \E t \in Clients : /\ cl[t].pc = "process_available_async callbacks"
                          /\ cl[t].notifiers # {}
    /\ m_notifier_mutex = NoThread

\* C9: m_async_error, once set, stays set; while it is set, pin_version changes
\* nothing whatever the version, register_notifier still stages the notifier (and
\* leaves the advancer alone), run_async_notifiers leaves the staged list empty
\* with every staged notifier whose handle is alive in the active list, opens and
\* advances no shared group and returns at once, and every notifier a deliver call
\* is made on holds the error afterwards.
C9_AsyncErrorLatched ==
    /\ [][m_async_error => m_async_error']_vars
    /\ [](m_async_error =>
             \A v \in Versions, open_ok \in BOOLEAN :
                 PinVersion(m_advancer_sg, m_async_error, m_new_notifiers, v, open_ok)
                     = [sg |-> m_advancer_sg, error |-> TRUE])
    /\ [][(m_async_error /\ \E t \in Clients : register_notifier(t, TRUE))
              => /\ Len(m_new_notifiers') = Len(m_new_notifiers) + 1
                 /\ m_advancer_sg' = m_advancer_sg]_vars
    /\ [][(m_async_error /\ run_async_notifiers_lock(TRUE))
              => /\ m_new_notifiers' = <<>>
                 /\ \A n \in Range(m_new_notifiers) : bc[n].alive => n \in Range(m_notifiers')
                 /\ m_advancer_sg' \in {m_advancer_sg, end_read(m_advancer_sg)}
                 /\ m_notifier_sg' \in {m_notifier_sg, end_read(m_notifier_sg)}
                 /\ run' = run]_vars
    /\ [][\A t \in Clients :
              (m_async_error /\ (advance_to_ready_recheck(t) \/ process_available_async_deliver(t))
                  /\ cl'[t].pc \in InCallbacks)
              => /\ cl'[t].notifiers = Deliverable(t)
                 /\ \A n \in cl'[t].notifiers : bc'[n].error]_vars

\* With the error latched, a notifier that the error path made active has been
\* delivered the error while another, registered after that, is staged.
C9_Witness ==
    /\ m_async_error
    /\ \E n \in Range(m_notifiers) : bc[n].error
    /\ m_new_notifiers # <<>>

\* --------------------------------------------------- claims on SpecMerge

\* The builder of table j in a slot; a slot whose tables stop before j has none.
BuilderOf(slot, j) == IF j <= Len(slot.tables) THEN slot.tables[j] ELSE <<>>

\* The changes of table j between version v and the final version, composed: the
\* commits after v up to `version` that changed the table, in order.
RECURSIVE ChangesSince(_, _)
ChangesSince(v, j) ==
    IF v >= cycle_version THEN <<>>
    ELSE (IF j \in commits[v + 1] THEN <<v + 1>> ELSE <<>>) \o ChangesSince(v + 1, j)

DistinctVersions == {staged_versions[n] : n \in 1..Len(staged_versions)}

\* C10: when the backward merge of a cycle is over, change_info has one slot more
\* than the staged notifiers have distinct versions; for every table, the slot a
\* staged notifier of version v gave to add_required_change_info holds the changes
\* of the commits after v up to the final version, composed in order, and nothing
\* else; and change_info[0] holds those after the version the notifier sg was at.
C10_EachOriginSeesItsOwnDiff ==
    merge_pc = "merged" =>
        /\ Len(change_info) = Cardinality(DistinctVersions) + 1
        /\ \A n \in 1..Len(staged_versions), j \in Tables :
               BuilderOf(change_info[slot_of[n]], j) = ChangesSince(staged_versions[n], j)
        /\ \A j \in Tables :
               BuilderOf(change_info[1], j) = ChangesSince(notifier_version, j)

\* A merged cycle with two staged versions, both before the final version, the
\* notifier sg at the second, and a table changed by every commit: change_info has
\* three slots, and the slot of the first version holds more changes than the slot
\* of the second, which holds the same as change_info[0].
C10_Witness ==
    /\ merge_pc = "merged"
    /\ Cardinality(DistinctVersions) = 2
    /\ Len(change_info) = 3
    /\ staged_versions[2] < cycle_version
    /\ notifier_version = staged_versions[2]
    /\ \A c \in 2..MaxMergeVersion : 1 \in commits[c]
    /\ BuilderOf(change_info[slot_of[1]], 1) = ChangesSince(staged_versions[1], 1)
    /\ Len(BuilderOf(change_info[slot_of[1]], 1)) > Len(BuilderOf(change_info[slot_of[2]], 1))
    /\ BuilderOf(change_info[slot_of[2]], 1) = BuilderOf(change_info[1], 1)
    /\ BuilderOf(change_info[1], 1) # <<>>

\* ------------------------------------------ further claims on SpecNotifier

\* C11: whenever m_notifier_mutex is free, the active list is non-empty and no
\* error is latched, the notifier sg holds a read transaction at a version no later
\* than the latest committed one; and every advance of line 381 is made on a sg
\* that holds a read transaction and takes it to a version that is no earlier than
\* the one it is at and no earlier than the one the cycle before advanced it to,
\* whether the target is the latest version or the one the advancer reached.
C11_NotifierSgAdvancesMonotonically ==
    /\ []((m_notifier_mutex = NoThread /\ m_notifiers # <<>> /\ ~m_async_error)
             => /\ m_notifier_sg.open
                /\ m_notifier_sg.reading
                /\ m_notifier_sg.version <= latest)
    /\ [][run_async_notifiers_advance
              => /\ m_notifier_sg.reading
                 /\ m_notifier_sg'.reading
                 /\ m_notifier_sg'.version = advanced_to'
                 /\ m_notifier_sg'.version >= m_notifier_sg.version
                 /\ advanced_to' >= advanced_to
                 /\ advanced_to' <= latest]_vars

\* A cycle with staged notifiers has advanced the notifier sg to the version the
\* advancer reached, past the version an earlier cycle handed the active notifiers
\* over at.
C11_Witness ==
    /\ run.pc = "relock"
    /\ run.version # NoVersion
    /\ ~m_async_error
    /\ m_notifiers # <<>>
    /\ m_notifier_sg.version = run.version
    /\ bc[m_notifiers[1]].version < run.version
    /\ advanced_to = run.version

\* --------------------------------------------------- claims on SpecWorkers

\* C12 (as claimed): with on_change called on several threads, at most one thread
\* is inside run_async_notifiers between its reap (line 310) and the installation
\* of the notifiers list (line 430): while one thread is between the unlock of line
\* 375 and line 430, advancing the notifier sg or calling run(), no other thread
\* has got past line 308, and no two threads use m_notifier_sg at once.
C12_OneRunAsyncNotifiersAtATime ==
    /\ Cardinality({w \in WorkerIds : workers[w].pc # "idle"}) <= 1
    /\ ~data_race

\* ---------------------------------------------------- claims on SpecAccess

\* The functions thread t is inside that read or write field x.
Uses(t, x) == x \in ReadsOf(in_call[t].function) \cup WritesOf(in_call[t].function)

\* C13 (as claimed): a thread that is inside a function reading or writing
\* m_config, m_weak_realm_notifiers or m_notifier holds m_realm_mutex, and no field
\* is used by two threads at once when one of them writes it.
C13_FieldsUsedUnderRealmMutex ==
    /\ \A t \in Callers, x \in Fields :
           Uses(t, x) => "m_realm_mutex" \in in_call[t].locks
    /\ \A t, u \in Callers, x \in Fields :
           (t # u /\ x \in WritesOf(in_call[t].function) /\ Uses(u, x)) => FALSE

\* ------------------------------------------ further claims on SpecNotifier

\* C14 (as claimed): advance_to_ready delivers only while it holds
\* m_notifier_mutex and the version it has just read again equals the version of
\* the Realm's transaction; a call that reads at entry a version older than the
\* Realm's returns with the Realm where it was and nothing delivered; and no step
\* moves a Realm's transaction to an older version.
C14_AdvanceToReadyDeliversAtTarget ==
    /\ [][\A t \in Clients :
              (advance_to_ready_recheck(t) /\ cl'[t].pc = "advance_to_ready callbacks")
                  => /\ m_notifier_mutex = t
                     /\ get_notifier_version = cl[t].sg
                     /\ cl'[t].sg = cl[t].sg]_vars
    /\ [][\A t \in Clients :
              (advance_to_ready_recheck(t) /\ cl'[t].pc # "advance_to_ready callbacks")
                  => bc' = bc]_vars
    /\ [][\A t \in Clients :
              (advance_to_ready_begin(t) /\ get_notifier_version < cl[t].sg)
                  => /\ cl' = cl
                     /\ bc' = bc]_vars
    /\ [][\A t \in Clients : cl'[t].sg >= cl[t].sg]_vars

\* C15: while no error is latched, a notifier joins m_notifiers only in the step
\* that installs a cycle's local list (lines 426-431), and then run() has been
\* called on it in that cycle, prepare_handover() has given it the version of the
\* notifier sg, and it gave add_required_change_info a slot of change_info other
\* than change_info[0], which holds only notifiers of the list copied at line 374.
C15_StagedJoinAfterRunAndHandover ==
    /\ [][\A n \in NotifierIds :
              (n \notin Range(m_notifiers) /\ n \in Range(m_notifiers') /\ ~m_async_error')
                  => /\ run_async_notifiers_install
                     /\ n \in run.ran
                     /\ bc'[n].version = m_notifier_sg.version
                     /\ n \notin run.required[1]
                     /\ \E i \in 2..Len(run.required) : n \in run.required[i]]_vars
    /\ [](run.pc = "relock" => run.required[1] \subseteq Range(m_notifiers))

\* A cycle has called run() on an active notifier, which gave change_info[0], and
\* on a staged one, which gave change_info[1] and is not in m_notifiers yet.
C15_Witness ==
    /\ run.pc = "relock"
    /\ ~m_async_error
    /\ run.required[1] # {}
    /\ \E n \in run.ran : n \notin Range(m_notifiers) /\ n \in run.required[2]

\* The notifiers of a list whose is_alive() is false.
DeadIn(B, L) == {n \in Range(L) : ~B[n].alive}

\* What C16 says of clean_up_dead_notifiers() called with the notifiers B, the
\* active list N and the staged list S: the lists it leaves hold the live notifiers
\* of N and S, each once, and no other; release_data() is called on every dead one,
\* which had not been released before, and on no other; and a list that it emptied
\* has its shared group left with no read transaction.
ReapContract(B, N, S, nsg, asg) ==
    LET reaped == clean_up_dead_notifiers(B, N, S, nsg, asg)
        dead == DeadIn(B, N) \cup DeadIn(B, S)
    IN /\ Range(reaped.notifiers) = Range(N) \ DeadIn(B, N)
       /\ Range(reaped.new_notifiers) = Range(S) \ DeadIn(B, S)
       /\ Len(reaped.notifiers) = Cardinality(Range(reaped.notifiers))
       /\ Len(reaped.new_notifiers) = Cardinality(Range(reaped.new_notifiers))
       /\ \A n \in dead : B[n].state = "registered" /\ reaped.bc[n].state = "released"
       /\ \A n \in NotifierIds \ dead : reaped.bc[n] = B[n]
       /\ (DeadIn(B, N) # {} /\ reaped.notifiers = <<>>) => ~reaped.notifier_sg.reading
       /\ (DeadIn(B, S) # {} /\ reaped.new_notifiers = <<>>) => ~reaped.advancer_sg.reading

\* C16: the reap of line 310, whenever run_async_notifiers can be called, and the
\* reap of line 431, whenever a cycle is about to install its list, keep the
\* contract above; and the step that ends with the reap of line 431 leaves no dead
\* notifier in m_notifiers or m_new_notifiers and no released notifier in a list.
C16_ReapRemovesExactlyTheDead ==
    /\ [](run.pc = "idle" =>
             ReapContract(bc, m_notifiers, m_new_notifiers, m_notifier_sg, m_advancer_sg))
    /\ [](run.pc = "relock" =>
             ReapContract(Handed(run), run.notifiers, m_new_notifiers,
                          m_notifier_sg, m_advancer_sg))
    /\ [][(run_async_notifiers_install \/ \E ok \in BOOLEAN : run_async_notifiers_lock(ok))
              => \A n \in Range(m_notifiers') \cup Range(m_new_notifiers') :
                     bc'[n].alive /\ bc'[n].state = "registered"]_vars

\* A reap has released a dead notifier, emptied both lists and left both shared
\* groups open with no read transaction.
C16_Witness ==
    /\ run.pc = "idle"
    /\ \E n \in NotifierIds : bc[n].state = "released"
    /\ m_notifiers = <<>> /\ m_new_notifiers = <<>>
    /\ m_notifier_sg.open /\ ~m_notifier_sg.reading
    /\ m_advancer_sg.open /\ ~m_advancer_sg.reading

\* ---------------------------------------- further claims on SpecRegistry

\* The coordinator a running clear_cache() was called on by thread t: the one
\* clear_all_caches locked, or the one the thread holds.
ClearTarget(t) == IF th[t].cac # NoCoord THEN th[t].cac ELSE th[t].held

\* C17 (as claimed): clear_cache() called on a coordinator resets the m_notifier
\* of that coordinator only, removes from the registry the entry of that
\* coordinator's path only, and calls close() only on Realms of that coordinator.
C17_ClearCacheTouchesOnlyItsCoordinator ==
    [][\A t \in RegThreads :
          /\ \A p \in Paths :
                 clear_cache_entry(t, p) =>
                     \A c \in CoordIds \ {ClearTarget(t)} :
                         coordinators'[c].m_notifier = coordinators[c].m_notifier
          /\ clear_cache_clear(t) =>
                 \A p \in Paths \ {coordinators[ClearTarget(t)].path} :
                     s_coordinators_per_path'[p] = s_coordinators_per_path[p]
          /\ \A h \in HandleIds :
                 (clear_cache_close(t, h) /\ handles[h].state = "open") =>
                     handles[h].coordinator = ClearTarget(t)]_vars

\* ------------------------------------------ further claims on SpecNotifier

\* C18 (as claimed): whenever the process runs, m_notifier_mutex is free and
\* m_new_notifiers is empty, the advancer holds no read transaction.
C18_AdvancerReleasedWhenNothingStaged ==
    (Running /\ m_notifier_mutex = NoThread /\ m_new_notifiers = <<>>)
        => ~m_advancer_sg.reading

\* C18 (amended): whenever the process runs, m_notifier_mutex is free, no error is
\* latched and m_new_notifiers is empty, the advancer holds no read transaction;
\* and a register_notifier call whose pin_version begins a read on an advancer
\* that is open, with nothing staged, finds it holding none.
C18_AdvancerReleasedUnlessErrorLatched ==
    /\ []((Running /\ m_notifier_mutex = NoThread /\ ~m_async_error /\ m_new_notifiers = <<>>)
             => ~m_advancer_sg.reading)
    /\ [][\A t \in Clients :
              (register_notifier(t, TRUE) /\ m_advancer_sg.open /\ m_new_notifiers = <<>>
                   /\ m_advancer_sg' # m_advancer_sg)
                  => /\ ~m_advancer_sg.reading
                     /\ m_advancer_sg' = begin_read(cl[t].sg)]_vars

\* A cycle has made the staged notifiers active and released the advancer's read:
\* the advancer is open and holds no read transaction with nothing staged.
C18_Witness ==
    /\ run.pc = "idle"
    /\ ~m_async_error
    /\ m_notifiers # <<>>
    /\ m_new_notifiers = <<>>
    /\ m_advancer_sg.open
    /\ ~m_advancer_sg.reading

\* The notifiers that are registered and whose handle is live, among B.
LiveIn(B) == {n \in NotifierIds : B[n].state = "registered" /\ B[n].alive}

\* With on_change called on one thread only (SpecNotifier): while the process
\* runs, every registered notifier whose handle is live is
\* in m_new_notifiers, in m_notifiers or in a local list of the cycle in flight;
\* the locked part of a cycle takes every staged notifier (into m_notifiers on the
\* error path, into its local list otherwise) and leaves nothing staged, the
\* unlocked part joins them to the local list, and the install step puts every
\* live notifier of the local list into m_notifiers.
OneWorkerLosesNoNotifier ==
    /\ [](Running =>
             LiveIn(bc) \subseteq
                 Range(m_new_notifiers) \cup Range(m_notifiers)
                     \cup Range(run.notifiers) \cup Range(run.new_notifiers))
    /\ [][((\E ok \in BOOLEAN : run_async_notifiers_lock(ok)) /\ Running')
              => /\ m_new_notifiers' = <<>>
                 /\ Range(m_new_notifiers) \cap LiveIn(bc')
                        \subseteq IF run'.pc = "idle" THEN Range(m_notifiers')
                                  ELSE Range(run'.new_notifiers)
                 /\ Range(m_notifiers) \cap LiveIn(bc') \subseteq Range(m_notifiers')
                 /\ run'.pc # "idle" => run'.notifiers = m_notifiers']_vars
    /\ [][run_async_notifiers_advance
              => Range(run.notifiers) \cup Range(run.new_notifiers)
                     \subseteq Range(run'.notifiers)]_vars
    /\ [][run_async_notifiers_install
              => /\ Range(run.notifiers) \cap LiveIn(bc') \subseteq Range(m_notifiers')
                 /\ Range(m_new_notifiers) \cap LiveIn(bc') \subseteq Range(m_new_notifiers')
                 /\ run'.pc = "idle"]_vars

\* A staged notifier has joined the local list of the cycle in flight and another
\* was registered while that cycle ran unlocked; both handles are live.
OneWorkerLosesNoNotifier_Witness ==
    /\ Running
    /\ run.pc = "relock"
    /\ Len(run.notifiers) > Len(m_notifiers)
    /\ m_new_notifiers # <<>>
    /\ Range(m_new_notifiers) \cup Range(run.notifiers) \subseteq LiveIn(bc)

\* The notifiers in the local lists of the threads inside run_async_notifiers.
InFlight ==
    UNION {Range(workers[w].notifiers) \cup Range(workers[w].new_notifiers) : w \in WorkerIds}

\* ----------------------------------------- further claims on SpecWorkers

\* C19 (as claimed, with on_change called on several threads): while the process
\* runs, every registered notifier whose handle is live is in m_new_notifiers, in
\* m_notifiers or in a local list of a cycle in flight.
C19_NoRegisteredNotifierIsLost ==
    Running => LiveIn(bc) \subseteq Range(m_new_notifiers) \cup Range(m_notifiers) \cup InFlight

\* ------------------------------------------- further claims on SpecRealm

\* C20 (as claimed): the entry of every open Realm carries the cache flag of the
\* config the Realm was opened with, and a get_realm call with cache = true never
\* returns a Realm that was opened with cache = false.
C20_CacheFlagIsTheOpeningConfigs ==
    /\ \A i \in DOMAIN m_weak_realm_notifiers :
           LET e == m_weak_realm_notifiers[i]
           IN realms[e.realm].state = "open" => e.cache = realms[e.realm].cache
    /\ \A config \in Configs, t \in Threads, helper_ok \in BOOLEAN, open_ok \in BOOLEAN :
           LET r == GetRealm(config, t, helper_ok, open_ok)
           IN (config.cache /\ r.result = "cached") => realms[r.realm].cache
====
